---- MODULE Spec2Model ----
(***************************************************************************)
(* Model of the M110A modem test harness scripts: the verdict routines of  *)
(* the AFC and AWGN tests, the capture-wait / injection protocol clients,  *)
(* the reference suite, the cross-implementation interop test and the      *)
(* response-reading helpers.                                               *)
(***************************************************************************)
EXTENDS Integers, Sequences, FiniteSets, TLC

VARIABLES
    script,      \* which script (or verdict routine) this run executes
    pc,          \* position of the main thread in the script
    test_data,   \* bytes the script sent on the data port
    rx_data,     \* bytes accumulated from the data port
    result,      \* what the verdict routine printed / returned
    scenario,    \* the server's control output after CMD:SENDBUFFER (whole)
    ctrlIn,      \* the part of it the control socket has not delivered yet
    response,    \* capture-wait: control text accumulated so far
    pcm_file,    \* capture-wait: path taken from the FILE: marker, or None
    capExit,     \* how the capture-wait loop ended
    sent,        \* control commands sent after CMD:SENDBUFFER, in order
    out,         \* diagnostic lines printed, in order
    dataOut,     \* every byte the server wrote to the data port so far
    dataBuf,     \* the bytes of dataOut the client has not read yet
    got_complete,\* injection-wait: a chunk holding COMPLETE was received
    dataConnected, \* the data-port connection has been established
    all_responses, \* reference suite: what recv_until returned
    got_dcd,     \* reference suite: carrier / mode detection seen
    chunks,      \* reference suite: data-port chunks read, joined
    decoded,     \* reference suite: the decoded text
    success,     \* reference suite: what test_mode returned
    readerStarted, \* interop: the background thread has been started
    rpc,         \* interop: position of the background reader
    stop,        \* interop: the stop flag, stop[0]
    d,           \* interop: the reader's last received chunk
    all_rx,      \* interop: the shared list of chunks, joined
    recvLog,     \* interop: every chunk the reader received, in order
    total,       \* interop: b''.join(all_rx) as printed
    attempts,    \* interop: iterations of the completion wait used up (i)
    sawComplete, \* interop: a control message holding COMPLETE arrived
    slept,       \* interop: seconds of the grace sleep that have elapsed
    mTimer,      \* seconds left of the main thread's blocking call
    rTimer,      \* seconds left of the reader's blocking recv
    closed,      \* helpers: the server has closed the connection
    expired,     \* helpers: recv_until's overall timeout has elapsed
    fed,         \* helpers: extra texts the server has sent
    input,       \* analysis tools: the argument of the call
    output       \* analysis tools: what the call returned or printed

verdictVars == <<test_data, rx_data, result>>
runVars == <<scenario, ctrlIn, response, pcm_file, capExit, sent, out,
             dataOut, dataBuf, got_complete>>
refVars == <<dataConnected, all_responses, got_dcd, chunks, decoded, success>>
iopVars == <<readerStarted, rpc, stop, d, all_rx, recvLog, total, attempts,
             sawComplete, slept, mTimer, rTimer>>
helpVars == <<closed, expired, fed>>
toolVars == <<input, output>>
vars == <<script, pc, verdictVars, runVars, refVars, iopVars, helpVars,
          toolVars>>

\* ------------------------------------------------------------------------
\* Bounds of the model
\* ------------------------------------------------------------------------
MaxSentLen == 2
MaxRxLen == 8
MaxData == 2
MaxFeed == 2
MaxRms == 4
MaxSamples == 2
MaxAmp == 2
MaxBins == 12

\* Byte values: zero, and two distinct non-zero values.
Byte == {0, 1, 2}
\* test_data literals are printable text: no zero byte.
TextByte == Byte \ {0}

Min(a, b) == IF a < b THEN a ELSE b
Max(a, b) == IF a > b THEN a ELSE b
Abs(a) == IF a < 0 THEN -a ELSE a

SeqsUpTo(S, n) == UNION {[1..k -> S] : k \in 0..n}

\* ------------------------------------------------------------------------
\* Python sequence primitives used by the scripts
\* ------------------------------------------------------------------------
TakeShort(s, n) == SubSeq(s, 1, Min(n, Len(s)) - 1)
\* s[:n]
Take(s, n) == SubSeq(s, 1, Min(n, Len(s)))
\* s[n:]
Drop(s, n) == SubSeq(s, Min(n, Len(s)) + 1, Len(s))

\* sum(1 for a, b in zip(x, y) if a != b)
RECURSIVE ZipMismatches(_, _)
ZipMismatches(x, y) ==
    IF x = <<>> \/ y = <<>> THEN 0
    ELSE (IF Head(x) # Head(y) THEN 1 ELSE 0) + ZipMismatches(Tail(x), Tail(y))

\* sum(1 for b in t if b != 0)
RECURSIVE CountNonZero(_)
CountNonZero(t) ==
    IF t = <<>> THEN 0
    ELSE (IF Head(t) # 0 THEN 1 ELSE 0) + CountNonZero(Tail(t))

\* pat in s
Contains(s, pat) ==
    \E i \in 0..(Len(s) - Len(pat)) : SubSeq(s, i + 1, i + Len(pat)) = pat

\* s.find(pat): 0-based index of the first occurrence, -1 when absent
Find(s, pat) ==
    IF Contains(s, pat)
    THEN CHOOSE i \in 0..(Len(s) - Len(pat)) :
            /\ SubSeq(s, i + 1, i + Len(pat)) = pat
            /\ \A j \in 0..(i - 1) : SubSeq(s, j + 1, j + Len(pat)) # pat
    ELSE -1

\* characters str.strip() removes (those of the model's alphabet)
Whitespace == {" ", "\t", "\n", "\r", "\f"}

RECURSIVE LStrip(_)
LStrip(s) ==
    IF s # <<>> /\ Head(s) \in Whitespace THEN LStrip(Tail(s)) ELSE s

RECURSIVE RStrip(_)
RStrip(s) ==
    IF s # <<>> /\ s[Len(s)] \in Whitespace
    THEN RStrip(SubSeq(s, 1, Len(s) - 1)) ELSE s

\* s.strip()
Strip(s) == RStrip(LStrip(s))

\* s.split(sep)[0]
SplitFirst(s, sep) ==
    IF Contains(s, <<sep>>) THEN Take(s, Find(s, <<sep>>)) ELSE s

\* ------------------------------------------------------------------------
\* Verdict routines
\* ------------------------------------------------------------------------
NoCount == 0 - 1
TrailingLimitLoose == 5 + 1
\* "Allow up to 5 non-zero trailing bytes (decoding noise)"
TrailingLimit == 5

Outcome(v, b, e, g) == [verdict |-> v, branch |-> b, errors |-> e, garbage |-> g]
NoResult == Outcome("NONE", "none", NoCount, NoCount)

\* test_afc.py, test_freq_offset: "Check result"
VerdictAfc(S, R) ==
    IF R = S THEN Outcome("PASS", "exact", NoCount, NoCount)
    ELSE IF R # <<>> /\ Take(R, Len(S)) = S THEN
        LET non_zero == CountNonZero(Drop(R, Len(S)))
        IN  IF non_zero <= TrailingLimit
            THEN Outcome("PASS", "trailing", NoCount, NoCount)
            ELSE Outcome("FAIL", "garbage", NoCount, non_zero)
    ELSE IF R # <<>> THEN
        Outcome("FAIL", "ber",
                ZipMismatches(R, S) + Max(0, Len(S) - Len(R)), NoCount)
    ELSE Outcome("FAIL", "nodata", NoCount, NoCount)

\* test_2400s_afc.py, test_with_verbose: "=== RESULT ==="
VerdictAfc1(S, R) ==
    IF Take(R, Len(S)) = S THEN
        LET non_zero == CountNonZero(Drop(R, Len(S)))
        IN  IF non_zero = 0
            THEN Outcome("PASS", "zeros", NoCount, NoCount)
            ELSE Outcome("PARTIAL", "garbage", NoCount, non_zero)
    ELSE IF R = S THEN Outcome("PASS", "exact", NoCount, NoCount)
    ELSE Outcome("FAIL", "differences",
                 ZipMismatches(R, S) + Abs(Len(R) - Len(S)), NoCount)

VerdictAwgnExact(S, R) ==
    IF R = S THEN Outcome("PASS", "prefix", NoCount, NoCount)
    ELSE Outcome("FAIL", "errors", ZipMismatches(R, S), NoCount)

\* test_awgn.py, test_awgn: "Check result"
VerdictAwgn(S, R) ==
    IF Take(R, Len(S)) = S THEN Outcome("PASS", "prefix", NoCount, NoCount)
    ELSE Outcome("FAIL", "errors", ZipMismatches(R, S), NoCount)

\* ------------------------------------------------------------------------
\* Protocol text
\* ------------------------------------------------------------------------
FILE_MARK == <<"F", "I", "L", "E", ":">>
OK_SENDBUFFER == <<"O", "K", ":", "S", "E", "N", "D", "B", "U", "F", "F", "E", "R">>
LF == <<"\n">>
CRLF == <<"\r", "\n">>
PathA == <<"a", ".", "p">>
PathB == <<"b", ".", "p">>

\* Python's None, and how an f-string renders it
PyNone == <<"None">>
NoneText == <<"N", "o", "n", "e">>
\* not x
Falsy(x) == x = PyNone \/ x = <<>>
\* f"{x}"
Format(x) == IF x = PyNone THEN NoneText ELSE x

\* Server outputs after CMD:SENDBUFFER the runs are checked against: text is
\* what the server writes, path the capture it announces before its
\* OK:SENDBUFFER acknowledgement (None when it announces none there).
Scenarios == {
    [name |-> "lf",      path |-> PathA,
     text |-> FILE_MARK \o PathA \o LF \o OK_SENDBUFFER \o LF],
    [name |-> "crlf",    path |-> PathA,
     text |-> FILE_MARK \o PathA \o CRLF \o OK_SENDBUFFER \o CRLF],
    [name |-> "two",     path |-> PathB,
     text |-> FILE_MARK \o PathA \o LF \o FILE_MARK \o PathB \o LF
              \o OK_SENDBUFFER \o LF],
    [name |-> "late",    path |-> PyNone,
     text |-> OK_SENDBUFFER \o LF \o FILE_MARK \o PathA \o LF],
    [name |-> "nofile",  path |-> PyNone,
     text |-> OK_SENDBUFFER \o LF],
    [name |-> "silent",  path |-> PyNone,
     text |-> <<>>] }

\* ------------------------------------------------------------------------
\* Idle values of the variables a specification does not use
\* ------------------------------------------------------------------------
RunIdle ==
    /\ scenario = [name |-> "none", path |-> PyNone, text |-> <<>>]
    /\ ctrlIn = <<>>
    /\ response = <<>>
    /\ pcm_file = PyNone
    /\ capExit = "none"
    /\ sent = <<>>
    /\ out = <<>>
    /\ dataOut = <<>>
    /\ dataBuf = <<>>
    /\ got_complete = FALSE

RefIdle ==
    /\ dataConnected = FALSE
    /\ all_responses = <<>>
    /\ got_dcd = FALSE
    /\ chunks = <<>>
    /\ decoded = <<>>
    /\ success = "unset"

IopIdle ==
    /\ readerStarted = FALSE
    /\ rpc = "idle"
    /\ stop = FALSE
    /\ d = <<>>
    /\ all_rx = <<>>
    /\ recvLog = <<>>
    /\ total = <<>>
    /\ attempts = 0
    /\ sawComplete = FALSE
    /\ slept = 0
    /\ mTimer = 0
    /\ rTimer = 0

HelpIdle == closed = FALSE /\ expired = FALSE /\ fed = 0
ToolIdle == input = <<>> /\ output = <<>>

\* ------------------------------------------------------------------------
\* Verdict specification: the three verdict routines applied to every pair
\* of sent bytes and received bytes within the bounds.
\* ------------------------------------------------------------------------
VerdictScripts == {"afc", "afc1", "awgn"}

InitVerdict ==
    /\ script \in VerdictScripts
    /\ pc = "wait"
    /\ test_data \in SeqsUpTo(TextByte, MaxSentLen) \ {<<>>}
    /\ rx_data = <<>>
    /\ result = NoResult
    /\ RunIdle /\ RefIdle /\ IopIdle /\ HelpIdle /\ ToolIdle

\* injection-wait loop body: rx_data += rx
RecvData ==
    /\ pc = "wait"
    /\ Len(rx_data) < MaxRxLen
    /\ \E b \in Byte : rx_data' = Append(rx_data, b)
    /\ UNCHANGED <<script, toolVars, helpVars, pc, test_data, result, runVars, refVars, iopVars>>

JudgeAfc ==
    /\ pc = "wait" /\ script = "afc"
    /\ result' = VerdictAfc(test_data, rx_data)
    /\ pc' = "done"
    /\ UNCHANGED <<script, toolVars, helpVars, test_data, rx_data, runVars, refVars, iopVars>>

JudgeAfc1 ==
    /\ pc = "wait" /\ script = "afc1"
    /\ result' = VerdictAfc1(test_data, rx_data)
    /\ pc' = "done"
    /\ UNCHANGED <<script, toolVars, helpVars, test_data, rx_data, runVars, refVars, iopVars>>

JudgeAwgn ==
    /\ pc = "wait" /\ script = "awgn"
    /\ result' = VerdictAwgn(test_data, rx_data)
    /\ pc' = "done"
    /\ UNCHANGED <<script, toolVars, helpVars, test_data, rx_data, runVars, refVars, iopVars>>

NextVerdict == RecvData \/ JudgeAfc \/ JudgeAfc1 \/ JudgeAwgn

SpecVerdict == InitVerdict /\ [][NextVerdict]_vars

\* ------------------------------------------------------------------------
\* Run specification: one run of a script that produces a capture through
\* CMD:SENDBUFFER (debug harness, AFC matrix case, AFC single pair, AWGN),
\* from the moment CMD:SENDBUFFER has been sent.
\* ------------------------------------------------------------------------
RunScripts == {"debug", "afc", "afc1", "awgn"}
RunSent == <<1, 2>>

InitRun ==
    /\ script \in RunScripts
    /\ pc = "capture"
    /\ test_data = RunSent
    /\ rx_data = <<>>
    /\ result = NoResult
    /\ scenario \in Scenarios
    /\ ctrlIn = scenario.text
    /\ response = <<>>
    /\ pcm_file = PyNone
    /\ capExit = "none"
    /\ sent = <<>>
    /\ out = <<>>
    /\ dataOut = <<>>
    /\ dataBuf = <<>>
    /\ got_complete = FALSE
    /\ RefIdle /\ IopIdle /\ HelpIdle /\ ToolIdle

\* pcm_file = text[idx+5:].strip().split('\n')[0]
ExtractPath(text) ==
    SplitFirst(Strip(Drop(text, Find(text, FILE_MARK) + 5)), "\n")

CapturedFromFirst(chunk, old) ==
    IF Contains(chunk, FILE_MARK) /\ old = PyNone THEN ExtractPath(chunk) ELSE old

\* what one received chunk does to pcm_file
CapturedFrom(chunk, old) ==
    IF Contains(chunk, FILE_MARK) THEN ExtractPath(chunk) ELSE old

\* capture-wait loop, ctrl.recv(4096) returned a non-empty chunk
CaptureChunk ==
    /\ pc = "capture"
    /\ \E n \in 1..Len(ctrlIn) :
        LET chunk == Take(ctrlIn, n) IN
        /\ ctrlIn' = Drop(ctrlIn, n)
        /\ response' = response \o chunk
        /\ pcm_file' = CapturedFrom(chunk, pcm_file)
        /\ IF Contains(response', OK_SENDBUFFER)
           THEN pc' = "captured" /\ capExit' = "ok"
           ELSE pc' = "capture" /\ capExit' = capExit
    /\ UNCHANGED <<script, toolVars, helpVars, verdictVars, scenario, sent, out, dataOut, dataBuf,
                   got_complete,
                   refVars, iopVars>>

\* capture-wait loop, ctrl.recv raised socket.timeout: break
CaptureTimeout ==
    /\ pc = "capture"
    /\ pc' = "captured" /\ capExit' = "timeout"
    /\ UNCHANGED <<script, toolVars, helpVars, verdictVars, scenario, ctrlIn, response, pcm_file,
                   sent, out, dataOut, dataBuf, got_complete,
                   refVars, iopVars>>

\* capture-wait loop, 15 seconds elapsed at the loop test (only after a
\* chunk that did not complete OK:SENDBUFFER was received)
CaptureDeadline ==
    /\ pc = "capture" /\ response # <<>>
    /\ pc' = "captured" /\ capExit' = "deadline"
    /\ UNCHANGED <<script, toolVars, helpVars, verdictVars, scenario, ctrlIn, response, pcm_file,
                   sent, out, dataOut, dataBuf, got_complete,
                   refVars, iopVars>>

Cmd(c, a) == [cmd |-> c, arg |-> a]

\* "if not pcm_file": the missing-capture exit of the debug harness and of
\* both AFC variants
HasCaptureGuard(s) == s \in {"debug", "afc", "afc1"}

NoCapture ==
    /\ pc = "captured" /\ HasCaptureGuard(script) /\ Falsy(pcm_file)
    /\ out' = Append(out, "no PCM file")
    /\ pc' = "done"
    /\ UNCHANGED <<script, toolVars, helpVars, verdictVars, scenario, ctrlIn, response, pcm_file,
                   capExit, sent, dataOut, dataBuf, got_complete,
                   refVars, iopVars>>

\* CMD:CHANNEL FREQOFFSET / AWGN, then recv_all(ctrl)
SetChannel ==
    /\ pc = "captured" /\ script \in {"afc", "afc1", "awgn"}
    /\ HasCaptureGuard(script) => ~Falsy(pcm_file)
    /\ sent' = Append(sent, Cmd("CHANNEL", IF script = "awgn" THEN <<"AWGN">>
                                           ELSE <<"FREQOFFSET">>))
    /\ ctrlIn' = <<>>
    /\ pc' = "inject"
    /\ UNCHANGED <<script, toolVars, helpVars, verdictVars, scenario, response, pcm_file, capExit,
                   out, dataOut, dataBuf, got_complete,
                   refVars, iopVars>>

\* the debug harness injects without a channel command
DebugCaptured ==
    /\ pc = "captured" /\ script = "debug" /\ ~Falsy(pcm_file)
    /\ pc' = "inject"
    /\ UNCHANGED <<script, toolVars, helpVars, verdictVars, runVars, refVars, iopVars>>

\* ctrl.send(f"CMD:RXAUDIOINJECT:{pcm_file}\n")
Inject ==
    /\ pc = "inject"
    /\ sent' = Append(sent, Cmd("RXAUDIOINJECT", Format(pcm_file)))
    /\ pc' = "poll_ctrl"
    /\ UNCHANGED <<script, toolVars, helpVars, verdictVars, scenario, ctrlIn, response, pcm_file,
                   capExit, out, dataOut, dataBuf, got_complete,
                   refVars, iopVars>>

\* the server's receiver writes a decoded byte to the data port
ServerWrite ==
    /\ pc \in {"poll_ctrl", "poll_data", "cleanup"}
    /\ Len(dataOut) < MaxData
    /\ \E b \in Byte :
        /\ dataOut' = Append(dataOut, b)
        /\ dataBuf' = Append(dataBuf, b)
    /\ UNCHANGED <<script, toolVars, helpVars, pc, verdictVars, scenario, ctrlIn, response,
                   pcm_file, capExit, sent, out, got_complete,
                   refVars, iopVars>>

PollCtrlCompleteDrain ==
    /\ pc = "poll_ctrl"
    /\ got_complete' = (script # "awgn")
    /\ rx_data' = rx_data \o dataBuf
    /\ dataBuf' = <<>>
    /\ pc' = "cleanup"
    /\ UNCHANGED <<script, toolVars, helpVars, test_data, result, scenario,
                   ctrlIn, response, pcm_file, capExit, sent, out, dataOut,
                   refVars, iopVars>>

\* injection-wait loop, control poll: a chunk holding COMPLETE ends the loop
PollCtrlComplete ==
    /\ pc = "poll_ctrl"
    /\ got_complete' = (script # "awgn")
    /\ pc' = "cleanup"
    /\ UNCHANGED <<script, toolVars, helpVars, verdictVars, scenario, ctrlIn, response, pcm_file,
                   capExit, sent, out, dataOut, dataBuf,
                   refVars, iopVars>>

\* injection-wait loop, control poll: another chunk, an empty read or a
\* 0.1 s timeout; the data port is polled next
PollCtrlOther ==
    /\ pc = "poll_ctrl"
    /\ pc' = "poll_data"
    /\ UNCHANGED <<script, toolVars, helpVars, verdictVars, runVars, refVars, iopVars>>

\* injection-wait loop, data poll: rx_data += rx
PollDataChunk ==
    /\ pc = "poll_data"
    /\ \E n \in 1..Len(dataBuf) :
        /\ rx_data' = rx_data \o Take(dataBuf, n)
        /\ dataBuf' = Drop(dataBuf, n)
    /\ pc' = "poll_ctrl"
    /\ UNCHANGED <<script, toolVars, helpVars, test_data, result, scenario, ctrlIn, response,
                   pcm_file, capExit, sent, out, dataOut, got_complete,
                   refVars, iopVars>>

\* injection-wait loop, data poll: 0.1 s timeout with nothing to read
PollDataTimeout ==
    /\ pc = "poll_data" /\ dataBuf = <<>>
    /\ pc' = "poll_ctrl"
    /\ UNCHANGED <<script, toolVars, helpVars, verdictVars, runVars, refVars, iopVars>>

\* injection-wait loop: the deadline (20 s, 25 s in the single-pair variant)
\* has passed at the loop test
WaitDeadline ==
    /\ pc = "poll_ctrl"
    /\ pc' = "cleanup"
    /\ UNCHANGED <<script, toolVars, helpVars, verdictVars, runVars, refVars, iopVars>>

CleanUpNoOff ==
    /\ pc = "cleanup" /\ script # "debug"
    /\ pc' = "judge"
    /\ UNCHANGED <<script, toolVars, helpVars, verdictVars, runVars, refVars,
                   iopVars>>

\* "Clean up": CMD:CHANNEL OFF, recv_all, close both sockets
CleanUp ==
    /\ pc = "cleanup" /\ script # "debug"
    /\ sent' = Append(sent, Cmd("CHANNEL", <<"OFF">>))
    /\ pc' = "judge"
    /\ UNCHANGED <<script, toolVars, helpVars, verdictVars, scenario, ctrlIn, response, pcm_file,
                   capExit, out, dataOut, dataBuf, got_complete,
                   refVars, iopVars>>

\* the debug harness prints what it collected and closes
DebugReport ==
    /\ pc = "cleanup" /\ script = "debug"
    /\ out' = Append(out, "Result")
    /\ pc' = "done"
    /\ UNCHANGED <<script, toolVars, helpVars, verdictVars, scenario, ctrlIn, response, pcm_file,
                   capExit, sent, dataOut, dataBuf, got_complete,
                   refVars, iopVars>>

VerdictOf(s, S, R) ==
    IF s = "afc" THEN VerdictAfc(S, R)
    ELSE IF s = "afc1" THEN VerdictAfc1(S, R)
    ELSE VerdictAwgn(S, R)

\* "Check result"
Judge ==
    /\ pc = "judge"
    /\ result' = VerdictOf(script, test_data, rx_data)
    /\ out' = Append(out, result'.verdict)
    /\ pc' = "done"
    /\ UNCHANGED <<script, toolVars, helpVars, test_data, rx_data, scenario, ctrlIn, response,
                   pcm_file, capExit, sent, dataOut, dataBuf, got_complete,
                   refVars, iopVars>>

NextRun ==
    \/ CaptureChunk \/ CaptureTimeout \/ CaptureDeadline
    \/ NoCapture \/ SetChannel \/ DebugCaptured \/ Inject
    \/ ServerWrite
    \/ PollCtrlComplete \/ PollCtrlOther \/ PollDataChunk \/ PollDataTimeout
    \/ WaitDeadline
    \/ CleanUp \/ DebugReport \/ Judge

SpecRun == InitRun /\ [][NextRun]_vars

\* ------------------------------------------------------------------------
\* Reference suite (test_ref_pcm.py): one call of test_mode
\* ------------------------------------------------------------------------
STATUS_RX == <<"S", "T", "A", "T", "U", "S", ":", "R", "X", ":">>
NO_DCD == <<"N", "O", " ", "D", "C", "D">>
INJECT_COMPLETE == <<"R", "X", "A", "U", "D", "I", "O", "I", "N", "J", "E", "C", "T", ":",
                     "C", "O", "M", "P", "L", "E", "T", "E">>
MODE_600S == <<"6", "0", "0", "S">>
QUICK_BROWN_FOX == <<"Q", "U", "I", "C", "K", " ", "B", "R", "O", "W", "N", " ",
                     "F", "O", "X">>
THE_QUICK_BROWN_FOX == <<"T", "H", "E", " ">> \o QUICK_BROWN_FOX
QUICK_BROWN_FIX == <<"Q", "U", "I", "C", "K", " ", "B", "R", "O", "W", "N", " ",
                     "F", "I", "X">>

\* a byte that is not valid in the default text encoding, and the character
\* decode(errors='replace') puts in its place
BadByte == "0xFF"
Replacement == "U+FFFD"

\* b.decode(errors='replace')
DecodeReplace(b) ==
    [k \in 1..Len(b) |-> IF b[k] = BadByte THEN Replacement ELSE b[k]]

\* s.split(sep)
RECURSIVE Split(_, _)
Split(s, sep) ==
    IF ~Contains(s, <<sep>>) THEN <<s>>
    ELSE <<Take(s, Find(s, <<sep>>))>> \o Split(Drop(s, Find(s, <<sep>>) + 1), sep)

GotDcdAnyLine(all) ==
    LET lines == Split(all, "\n")
    IN  \E j \in 1..Len(lines) :
            Contains(lines[j], STATUS_RX) /\ ~Contains(lines[j], NO_DCD)

\* "Check for mode detection": the first line holding STATUS:RX: decides
GotDcd(all) ==
    IF Contains(all, STATUS_RX)
    THEN LET lines == Split(all, "\n")
             first == CHOOSE j \in 1..Len(lines) :
                        /\ Contains(lines[j], STATUS_RX)
                        /\ \A k \in 1..(j - 1) : ~Contains(lines[k], STATUS_RX)
         IN  ~Contains(lines[first], NO_DCD)
    ELSE FALSE

EvalSuccessWholePhrase(dec) ==
    Len(dec) > 0 /\ Contains(dec, THE_QUICK_BROWN_FOX)

\* "Evaluate - check for expected message content"
EvalSuccess(dec) ==
    LET has_expected_content ==
            Contains(dec, QUICK_BROWN_FOX) \/ Contains(dec, THE_QUICK_BROWN_FOX)
    IN  Len(dec) > 0 /\ has_expected_content

\* control output of the server after CMD:RXAUDIOINJECT
RefScenarios == {
    [name |-> "dcd",     path |-> PyNone,
     text |-> STATUS_RX \o MODE_600S \o LF \o INJECT_COMPLETE \o LF],
    [name |-> "nodcd",   path |-> PyNone,
     text |-> STATUS_RX \o NO_DCD \o LF \o INJECT_COMPLETE \o LF],
    [name |-> "latedcd", path |-> PyNone,
     text |-> STATUS_RX \o NO_DCD \o LF \o STATUS_RX \o MODE_600S \o LF
              \o INJECT_COMPLETE \o LF],
    [name |-> "stalled", path |-> PyNone,
     text |-> STATUS_RX \o MODE_600S \o LF],
    [name |-> "silent",  path |-> PyNone,
     text |-> <<>>] }

\* decoded bytes the receiver writes to the data port
DataTexts == {
    THE_QUICK_BROWN_FOX,
    <<BadByte>> \o QUICK_BROWN_FOX \o <<"!">>,
    QUICK_BROWN_FIX,
    <<>> }

\* the order of the steps of test_mode
RefOrderInjectFirst ==
    <<"r_start", "r_ctrl", "r_ready", "r_mode", "r_inject", "r_data", "r_until",
      "r_check", "r_read", "r_eval", "done">>
RefOrder ==
    <<"r_start", "r_ctrl", "r_ready", "r_data", "r_mode", "r_inject", "r_until",
      "r_check", "r_read", "r_eval", "done">>

NextPc(order, p) == order[(CHOOSE k \in 1..Len(order) : order[k] = p) + 1]
RefNext == NextPc(RefOrder, pc)

InitRef ==
    /\ script = "ref"
    /\ pc = "r_start"
    /\ test_data = <<>> /\ rx_data = <<>> /\ result = NoResult
    /\ scenario \in RefScenarios
    /\ ctrlIn = scenario.text
    /\ response = <<>>
    /\ pcm_file = PathA
    /\ capExit = "none"
    /\ sent = <<>>
    /\ out = <<>>
    /\ dataOut \in DataTexts
    /\ dataBuf = dataOut
    /\ got_complete = FALSE
    /\ RefIdle /\ IopIdle /\ HelpIdle /\ ToolIdle

\* os.path.exists(pcm_path) holds
RefFileFound ==
    /\ script = "ref" /\ pc = "r_start"
    /\ pc' = RefNext
    /\ UNCHANGED <<script, toolVars, helpVars, verdictVars, runVars, refVars, iopVars>>

\* "PCM file not found": return False
RefMissingFile ==
    /\ script = "ref" /\ pc = "r_start"
    /\ out' = Append(out, "PCM file not found")
    /\ success' = "False"
    /\ pc' = "done"
    /\ UNCHANGED <<script, toolVars, helpVars, verdictVars, scenario, ctrlIn, response, pcm_file,
                   capExit, sent, dataOut, dataBuf, got_complete,
                   dataConnected, all_responses, got_dcd, chunks, decoded,
                   iopVars>>

\* ctrl.connect(('127.0.0.1', 4999))
RefConnectCtrl ==
    /\ script = "ref" /\ pc = "r_ctrl"
    /\ pc' = RefNext
    /\ UNCHANGED <<script, toolVars, helpVars, verdictVars, runVars, refVars, iopVars>>

\* a connect is refused: the exception ends test_mode
RefConnectRefused ==
    /\ script = "ref" /\ pc \in {"r_ctrl", "r_data"}
    /\ pc' = "raised"
    /\ UNCHANGED <<script, toolVars, helpVars, verdictVars, runVars, refVars, iopVars>>

\* ready = ctrl.recv(1024)
RefReady ==
    /\ script = "ref" /\ pc = "r_ready"
    /\ pc' = RefNext
    /\ UNCHANGED <<script, toolVars, helpVars, verdictVars, runVars, refVars, iopVars>>

\* no banner within 5 s: socket.timeout is not caught
RefReadyTimeout ==
    /\ script = "ref" /\ pc = "r_ready"
    /\ out' = Append(out, "socket.timeout")
    /\ pc' = "raised"
    /\ UNCHANGED <<script, toolVars, helpVars, verdictVars, scenario, ctrlIn, response,
                   pcm_file, capExit, sent, dataOut, dataBuf, got_complete,
                   refVars, iopVars>>

\* "Connect to data port BEFORE inject"
RefConnectData ==
    /\ script = "ref" /\ pc = "r_data"
    /\ dataConnected' = TRUE
    /\ pc' = RefNext
    /\ UNCHANGED <<script, toolVars, helpVars, verdictVars, runVars, all_responses, got_dcd, chunks,
                   decoded, success, iopVars>>

\* send_cmd(ctrl, f"CMD:DATA RATE:{mode}")
RefSetMode ==
    /\ script = "ref" /\ pc = "r_mode"
    /\ sent' = Append(sent, Cmd("DATA RATE", MODE_600S))
    /\ pc' = RefNext
    /\ UNCHANGED <<script, toolVars, helpVars, verdictVars, scenario, ctrlIn, response, pcm_file,
                   capExit, out, dataOut, dataBuf, got_complete, refVars,
                   iopVars>>

\* ctrl.sendall(f"CMD:RXAUDIOINJECT:{pcm_path}\n")
RefInject ==
    /\ script = "ref" /\ pc = "r_inject"
    /\ sent' = Append(sent, Cmd("RXAUDIOINJECT", Format(pcm_file)))
    /\ pc' = RefNext
    /\ UNCHANGED <<script, toolVars, helpVars, verdictVars, scenario, ctrlIn, response, pcm_file,
                   capExit, out, dataOut, dataBuf, got_complete, refVars,
                   iopVars>>

\* recv_until: a chunk arrives; return once the pattern is in all_data
UntilChunk ==
    /\ script = "ref" /\ pc = "r_until"
    /\ \E n \in 1..Len(ctrlIn) :
        /\ ctrlIn' = Drop(ctrlIn, n)
        /\ response' = response \o Take(ctrlIn, n)
    /\ IF Contains(response', INJECT_COMPLETE)
       THEN pc' = RefNext /\ all_responses' = response'
       ELSE pc' = pc /\ all_responses' = all_responses
    /\ UNCHANGED <<script, toolVars, helpVars, verdictVars, scenario, pcm_file, capExit, sent, out,
                   dataOut, dataBuf, got_complete, dataConnected, got_dcd,
                   chunks, decoded, success, iopVars>>

\* recv_until: the overall timeout (45 s) has elapsed: return all_data
UntilDeadline ==
    /\ script = "ref" /\ pc = "r_until"
    /\ all_responses' = response
    /\ pc' = RefNext
    /\ UNCHANGED <<script, toolVars, helpVars, verdictVars, runVars, dataConnected, got_dcd, chunks,
                   decoded, success, iopVars>>

\* "Check results": got_dcd, got_complete
RefCheck ==
    /\ script = "ref" /\ pc = "r_check"
    /\ got_dcd' = GotDcd(all_responses)
    /\ got_complete' = Contains(all_responses, INJECT_COMPLETE)
    /\ pc' = RefNext
    /\ UNCHANGED <<script, toolVars, helpVars, verdictVars, scenario, ctrlIn, response, pcm_file,
                   capExit, sent, out, dataOut, dataBuf, dataConnected,
                   all_responses, chunks, decoded, success, iopVars>>

\* data read loop: chunks.append(chunk)
RefDataChunk ==
    /\ script = "ref" /\ pc = "r_read"
    /\ \E n \in 1..Len(dataBuf) :
        /\ chunks' = chunks \o Take(dataBuf, n)
        /\ dataBuf' = Drop(dataBuf, n)
    /\ UNCHANGED <<script, toolVars, helpVars, pc, verdictVars, scenario, ctrlIn, response, pcm_file,
                   capExit, sent, out, dataOut, got_complete, dataConnected,
                   all_responses, got_dcd, decoded, success, iopVars>>

\* data read loop ends (2 s timeout or connection closed); decode the chunks
RefDataEnd ==
    /\ script = "ref" /\ pc = "r_read"
    /\ decoded' = IF chunks # <<>> THEN DecodeReplace(chunks) ELSE <<>>
    /\ pc' = RefNext
    /\ UNCHANGED <<script, toolVars, helpVars, verdictVars, runVars, dataConnected, all_responses,
                   got_dcd, chunks, success, iopVars>>

\* data read loop raises another exception: "Error reading data"
RefDataError ==
    /\ script = "ref" /\ pc = "r_read"
    /\ out' = Append(out, "Error reading data")
    /\ pc' = RefNext
    /\ UNCHANGED <<script, toolVars, helpVars, verdictVars, scenario, ctrlIn, response, pcm_file,
                   capExit, sent, dataOut, dataBuf, got_complete, refVars,
                   iopVars>>

\* success = len(decoded) > 0 and has_expected_content; return success
RefEval ==
    /\ script = "ref" /\ pc = "r_eval"
    /\ success' = IF EvalSuccess(decoded) THEN "True" ELSE "False"
    /\ out' = Append(out, IF EvalSuccess(decoded) THEN "PASS" ELSE "FAIL")
    /\ pc' = RefNext
    /\ UNCHANGED <<script, toolVars, helpVars, verdictVars, scenario, ctrlIn, response, pcm_file,
                   capExit, sent, dataOut, dataBuf, got_complete,
                   dataConnected, all_responses, got_dcd, chunks, decoded,
                   iopVars>>

NextRef ==
    \/ RefFileFound \/ RefMissingFile \/ RefConnectCtrl \/ RefConnectRefused
    \/ RefReady \/ RefReadyTimeout \/ RefConnectData \/ RefSetMode \/ RefInject
    \/ UntilChunk \/ UntilDeadline \/ RefCheck
    \/ RefDataChunk \/ RefDataEnd \/ RefDataError \/ RefEval

\* ------------------------------------------------------------------------
\* Cross-implementation interop test (test_msdmt_rx.py): the main thread and
\* the background reader, with the timeouts of their blocking calls in
\* whole seconds.  A step that does not block takes no time.
\* ------------------------------------------------------------------------
DataRecvTimeout == 1
ReadyTimeout == 5
CtrlPollTimeout == 1
MaxWaitIters == 30
GraceNone == 3 - 3
GraceSeconds == 3
JoinNoWait == 2 - 2
JoinTimeout == 2

IopOrder == <<"i_data", "i_thread", "i_ctrl", "i_ready", "i_inject", "i_recv">>
IopNext == NextPc(IopOrder, pc)

InitIop ==
    /\ script = "interop"
    /\ pc = "i_data"
    /\ test_data = <<>> /\ rx_data = <<>> /\ result = NoResult
    /\ RunIdle /\ RefIdle /\ IopIdle /\ HelpIdle /\ ToolIdle

\* data_sock.connect(('localhost', 4998))
IopConnectData ==
    /\ script = "interop" /\ pc = "i_data"
    /\ dataConnected' = TRUE
    /\ pc' = IopNext
    /\ UNCHANGED <<script, toolVars, helpVars, verdictVars, runVars, all_responses, got_dcd, chunks,
                   decoded, success, iopVars>>

\* a connect is refused: the exception ends the main thread
IopConnectRefused ==
    /\ script = "interop" /\ pc \in {"i_data", "i_ctrl"}
    /\ pc' = "raised"
    /\ UNCHANGED <<script, toolVars, helpVars, verdictVars, runVars, refVars, iopVars>>

\* t = threading.Thread(target=read_data); t.start()
IopStartThread ==
    /\ script = "interop" /\ pc = "i_thread"
    /\ readerStarted' = TRUE
    /\ rpc' = "test"
    /\ pc' = IopNext
    /\ UNCHANGED <<script, toolVars, helpVars, verdictVars, runVars, refVars, stop, d, all_rx,
                   recvLog, total, attempts, sawComplete, slept, mTimer,
                   rTimer>>

\* ctrl.settimeout(5); ctrl.connect(('localhost', 4999))
IopConnectCtrl ==
    /\ script = "interop" /\ pc = "i_ctrl"
    /\ pc' = IopNext
    /\ mTimer' = ReadyTimeout
    /\ UNCHANGED <<script, toolVars, helpVars, verdictVars, runVars, refVars, readerStarted, rpc,
                   stop, d, all_rx, recvLog, total, attempts, sawComplete,
                   slept, rTimer>>

\* ctrl.recv(1024) returns the ready banner
IopReady ==
    /\ script = "interop" /\ pc = "i_ready"
    /\ pc' = IopNext
    /\ mTimer' = 0
    /\ UNCHANGED <<script, toolVars, helpVars, verdictVars, runVars, refVars, readerStarted, rpc,
                   stop, d, all_rx, recvLog, total, attempts, sawComplete,
                   slept, rTimer>>

\* no banner within 5 s: socket.timeout is not caught
IopReadyTimeout ==
    /\ script = "interop" /\ pc = "i_ready" /\ mTimer = 0
    /\ out' = Append(out, "socket.timeout")
    /\ pc' = "raised"
    /\ UNCHANGED <<script, toolVars, helpVars, verdictVars, scenario, ctrlIn, response,
                   pcm_file, capExit, sent, dataOut, dataBuf, got_complete,
                   refVars, iopVars>>

\* ctrl.send(f'CMD:RXAUDIOINJECT:{pcm}\n'); ctrl.settimeout(1)
IopInject ==
    /\ script = "interop" /\ pc = "i_inject"
    /\ sent' = Append(sent, Cmd("RXAUDIOINJECT", PathA))
    /\ pc' = IopNext
    /\ mTimer' = CtrlPollTimeout
    /\ UNCHANGED <<script, toolVars, helpVars, verdictVars, scenario, ctrlIn, response, pcm_file,
                   capExit, out, dataOut, dataBuf, got_complete, refVars,
                   readerStarted, rpc, stop, d, all_rx, recvLog, total,
                   attempts, sawComplete, slept, rTimer>>

\* for i in range(30): one iteration is used up
NextAttempt ==
    /\ attempts' = attempts + 1
    /\ IF attempts + 1 < MaxWaitIters
       THEN pc' = "i_recv" /\ mTimer' = CtrlPollTimeout
       ELSE pc' = "i_stop" /\ mTimer' = 0

\* ctrl.recv(1024) returns a message without COMPLETE (or an empty one)
IopMsgOther ==
    /\ script = "interop" /\ pc = "i_recv"
    /\ NextAttempt
    /\ UNCHANGED <<script, toolVars, helpVars, verdictVars, runVars, refVars, readerStarted, rpc,
                   stop, d, all_rx, recvLog, total, sawComplete, slept, rTimer>>

\* ctrl.recv(1024) raises socket.timeout: pass
IopPollTimeout ==
    /\ script = "interop" /\ pc = "i_recv" /\ mTimer = 0
    /\ NextAttempt
    /\ UNCHANGED <<script, toolVars, helpVars, verdictVars, runVars, refVars, readerStarted, rpc,
                   stop, d, all_rx, recvLog, total, sawComplete, slept, rTimer>>

\* a message holding COMPLETE: time.sleep(3), then break
IopMsgComplete ==
    /\ script = "interop" /\ pc = "i_recv"
    /\ sawComplete' = TRUE
    /\ pc' = "i_sleep"
    /\ mTimer' = GraceSeconds
    /\ UNCHANGED <<script, toolVars, helpVars, verdictVars, runVars, refVars, readerStarted, rpc,
                   stop, d, all_rx, recvLog, total, attempts, slept, rTimer>>

\* the sleep is over: break
IopWake ==
    /\ script = "interop" /\ pc = "i_sleep" /\ mTimer = 0
    /\ pc' = "i_stop"
    /\ UNCHANGED <<script, toolVars, helpVars, verdictVars, runVars, refVars, iopVars>>

\* stop[0] = True; t.join(timeout=2) begins
IopStop ==
    /\ script = "interop" /\ pc = "i_stop"
    /\ stop' = TRUE
    /\ pc' = "i_join"
    /\ mTimer' = JoinTimeout
    /\ UNCHANGED <<script, toolVars, helpVars, verdictVars, runVars, refVars, readerStarted, rpc, d,
                   all_rx, recvLog, total, attempts, sawComplete, slept,
                   rTimer>>

\* t.join(timeout=2) returns: the reader has ended, or the timeout elapsed
IopJoinReturn ==
    /\ script = "interop" /\ pc = "i_join"
    /\ rpc = "done" \/ mTimer = 0
    /\ pc' = "i_total"
    /\ mTimer' = 0
    /\ UNCHANGED <<script, toolVars, helpVars, verdictVars, runVars, refVars, readerStarted, rpc,
                   stop, d, all_rx, recvLog, total, attempts, sawComplete,
                   slept, rTimer>>

\* total = b''.join(all_rx); print it
IopTotal ==
    /\ script = "interop" /\ pc = "i_total"
    /\ total' = all_rx
    /\ pc' = "done"
    /\ UNCHANGED <<script, toolVars, helpVars, verdictVars, runVars, refVars, readerStarted, rpc,
                   stop, d, all_rx, recvLog, attempts, sawComplete, slept,
                   mTimer, rTimer>>

\* read_data: while not stop[0]
ReaderTest ==
    /\ script = "interop" /\ rpc = "test"
    /\ IF stop THEN rpc' = "done" /\ rTimer' = 0
       ELSE rpc' = "recv" /\ rTimer' = DataRecvTimeout
    /\ UNCHANGED <<script, toolVars, helpVars, pc, verdictVars, runVars, refVars, readerStarted,
                   stop, d, all_rx, recvLog, total, attempts, sawComplete,
                   slept, mTimer>>

\* read_data: d = data_sock.recv(4096) returns a chunk
ReaderRecv ==
    /\ script = "interop" /\ rpc = "recv"
    /\ \E n \in 1..Len(dataBuf) :
        /\ d' = Take(dataBuf, n)
        /\ dataBuf' = Drop(dataBuf, n)
        /\ recvLog' = recvLog \o Take(dataBuf, n)
    /\ rpc' = "got"
    /\ rTimer' = 0
    /\ UNCHANGED <<script, toolVars, helpVars, pc, verdictVars, scenario, ctrlIn, response, pcm_file,
                   capExit, sent, out, dataOut, got_complete, refVars,
                   readerStarted, stop, all_rx, total, attempts, sawComplete,
                   slept, mTimer>>

\* read_data: all_rx.append(d)
ReaderAppend ==
    /\ script = "interop" /\ rpc = "got"
    /\ all_rx' = all_rx \o d
    /\ rpc' = "test"
    /\ UNCHANGED <<script, toolVars, helpVars, pc, verdictVars, runVars, refVars, readerStarted,
                   stop, d, recvLog, total, attempts, sawComplete, slept,
                   mTimer, rTimer>>

\* read_data: except socket.timeout: pass
ReaderTimeout ==
    /\ script = "interop" /\ rpc = "recv" /\ dataBuf = <<>> /\ rTimer = 0
    /\ rpc' = "test"
    /\ UNCHANGED <<script, toolVars, helpVars, pc, verdictVars, runVars, refVars, readerStarted,
                   stop, d, all_rx, recvLog, total, attempts, sawComplete,
                   slept, mTimer, rTimer>>

\* read_data: except Exception: break
ReaderError ==
    /\ script = "interop" /\ rpc = "recv"
    /\ rpc' = "done"
    /\ rTimer' = 0
    /\ UNCHANGED <<script, toolVars, helpVars, pc, verdictVars, runVars, refVars, readerStarted,
                   stop, d, all_rx, recvLog, total, attempts, sawComplete,
                   slept, mTimer>>

\* the receiver writes a decoded byte to the data port
IopServerWrite ==
    /\ script = "interop" /\ dataConnected /\ pc \notin {"done", "raised"}
    /\ Len(dataOut) < MaxData
    /\ \E b \in Byte :
        /\ dataOut' = Append(dataOut, b)
        /\ dataBuf' = Append(dataBuf, b)
    /\ UNCHANGED <<script, toolVars, helpVars, pc, verdictVars, scenario, ctrlIn, response, pcm_file,
                   capExit, sent, out, got_complete, refVars, iopVars>>

MainWaiting ==
    \/ pc \in {"i_ready", "i_recv", "i_sleep"} /\ mTimer > 0
    \/ pc = "i_join" /\ rpc # "done" /\ mTimer > 0
MainBlocked == MainWaiting \/ pc \in {"done", "raised"}
ReaderWaiting == rpc = "recv" /\ dataBuf = <<>> /\ rTimer > 0
ReaderBlocked == ReaderWaiting \/ rpc \in {"idle", "done"}

\* one second passes while every thread is blocked or has ended
Tick ==
    /\ script = "interop"
    /\ MainBlocked /\ ReaderBlocked
    /\ MainWaiting \/ ReaderWaiting
    /\ mTimer' = IF MainWaiting THEN mTimer - 1 ELSE mTimer
    /\ rTimer' = IF ReaderWaiting THEN rTimer - 1 ELSE rTimer
    /\ slept' = IF pc = "i_sleep" THEN slept + 1 ELSE slept
    /\ UNCHANGED <<script, toolVars, helpVars, pc, verdictVars, runVars, refVars, readerStarted, rpc,
                   stop, d, all_rx, recvLog, total, attempts, sawComplete>>

NextIop ==
    \/ IopConnectData \/ IopConnectRefused \/ IopStartThread \/ IopConnectCtrl
    \/ IopReady \/ IopReadyTimeout \/ IopInject
    \/ IopMsgOther \/ IopPollTimeout \/ IopMsgComplete \/ IopWake
    \/ IopStop \/ IopJoinReturn \/ IopTotal
    \/ ReaderTest \/ ReaderRecv \/ ReaderAppend \/ ReaderTimeout \/ ReaderError
    \/ IopServerWrite \/ Tick

\* ------------------------------------------------------------------------
\* Injection specification: the reference suite and the interop test
\* ------------------------------------------------------------------------
InitRx == InitRef \/ InitIop
NextRx == NextRef \/ NextIop
SpecRx == InitRx /\ [][NextRx]_vars

\* ------------------------------------------------------------------------
\* Response-reading helpers: send_cmd (gen_test_pcm.py, test_ref_pcm.py),
\* recv_all (server tests), recv_until (test_ref_pcm.py) and the read loop of
\* the analyze-command test, each run once against a server that sends some
\* text, may send more, may fall silent and may close the connection.
\* ------------------------------------------------------------------------
Helpers == {"gen_send_cmd", "ref_send_cmd", "recv_all", "recv_until", "analyze"}

HelperTexts == {
    <<"O", "K", "\n">>,
    <<"O", "K">>,
    INJECT_COMPLETE \o LF,
    <<>> }

InitHelpers ==
    /\ script \in Helpers
    /\ pc = "h_recv"
    /\ test_data = <<>> /\ rx_data = <<>> /\ result = NoResult
    /\ scenario = [name |-> "none", path |-> PyNone, text |-> <<>>]
    /\ ctrlIn \in HelperTexts
    /\ response = <<>>
    /\ pcm_file = PyNone
    /\ capExit = "none"
    /\ sent = <<>>
    /\ out = <<>>
    /\ dataOut = <<>>
    /\ dataBuf = <<>>
    /\ got_complete = FALSE
    /\ RefIdle /\ IopIdle /\ HelpIdle /\ ToolIdle

AfterChunkLastOnly(h, chunk, acc, more) ==
    IF h \in {"gen_send_cmd", "ref_send_cmd"}
        THEN IF Contains(chunk, LF) THEN "returned" ELSE "h_test"
    ELSE IF h = "recv_until"
        THEN IF Contains(chunk, INJECT_COMPLETE) THEN "returned" ELSE "h_test"
    ELSE IF h = "analyze"
        THEN IF more THEN "h_test" ELSE "returned"
    ELSE "h_test"

\* where the helper goes after a non-empty chunk (acc: the text accumulated
\* with it, more: whether further data is already waiting)
AfterChunk(h, chunk, acc, more) ==
    IF h \in {"gen_send_cmd", "ref_send_cmd"}
        THEN IF Contains(chunk, LF) THEN "returned" ELSE "h_test"
    ELSE IF h = "recv_until"
        THEN IF Contains(acc, INJECT_COMPLETE) THEN "returned" ELSE "h_test"
    ELSE IF h = "analyze"
        THEN IF more THEN "h_test" ELSE "returned"
    ELSE "h_test"

\* where the helper goes after recv returned b'' (connection closed)
AfterEmpty(h) ==
    IF h \in {"ref_send_cmd", "recv_all", "analyze"} THEN "returned" ELSE "h_test"

\* where the helper goes after recv raised socket.timeout
AfterTimeout(h) ==
    IF h = "gen_send_cmd" THEN "raised"
    ELSE IF h = "recv_until" THEN "h_test"
    ELSE "returned"

\* sock.recv returns a non-empty chunk
HelperRecvChunk ==
    /\ script \in Helpers /\ pc = "h_recv"
    /\ \E n \in 1..Len(ctrlIn) :
        /\ ctrlIn' = Drop(ctrlIn, n)
        /\ response' = response \o Take(ctrlIn, n)
        /\ pc' = AfterChunk(script, Take(ctrlIn, n), response', ctrlIn' # <<>>)
    /\ UNCHANGED <<script, toolVars, helpVars, verdictVars, scenario, pcm_file, capExit,
                   sent, out, dataOut, dataBuf, got_complete, refVars, iopVars>>

\* sock.recv returns b'': the server has closed the connection
HelperRecvEmpty ==
    /\ script \in Helpers /\ pc = "h_recv"
    /\ ctrlIn = <<>> /\ closed
    /\ pc' = AfterEmpty(script)
    /\ UNCHANGED <<script, toolVars, helpVars, verdictVars, runVars, refVars, iopVars>>

\* sock.recv raises socket.timeout: nothing arrived within the timeout
HelperRecvTimeout ==
    /\ script \in Helpers /\ pc = "h_recv"
    /\ ctrlIn = <<>> /\ ~closed
    /\ pc' = AfterTimeout(script)
    /\ UNCHANGED <<script, toolVars, helpVars, verdictVars, runVars, refVars, iopVars>>

\* the loop test: while True, or while time.time() - start < timeout
HelperLoop ==
    /\ script \in Helpers /\ pc = "h_test"
    /\ pc' = IF script = "recv_until" /\ expired THEN "returned" ELSE "h_recv"
    /\ UNCHANGED <<script, toolVars, helpVars, verdictVars, runVars, refVars, iopVars>>

\* recv_until's overall timeout elapses
Expire ==
    /\ script = "recv_until" /\ pc \in {"h_recv", "h_test"} /\ ~expired
    /\ expired' = TRUE
    /\ UNCHANGED <<script, toolVars, pc, closed, fed, verdictVars, runVars, refVars,
                   iopVars>>

\* the server sends more text
ServerFeed ==
    /\ script \in Helpers /\ pc \in {"h_recv", "h_test"}
    /\ ~closed /\ fed < MaxFeed
    /\ ctrlIn' = Append(ctrlIn, "x")
    /\ fed' = fed + 1
    /\ UNCHANGED <<script, toolVars, pc, closed, expired, verdictVars, scenario, response,
                   pcm_file, capExit, sent, out, dataOut, dataBuf,
                   got_complete, refVars, iopVars>>

\* the server closes the connection
ServerClose ==
    /\ script \in Helpers /\ pc \in {"h_recv", "h_test"}
    /\ ~closed
    /\ closed' = TRUE
    /\ UNCHANGED <<script, toolVars, pc, expired, fed, verdictVars, runVars, refVars,
                   iopVars>>

HelperStep ==
    HelperRecvChunk \/ HelperRecvEmpty \/ HelperRecvTimeout \/ HelperLoop

NextHelpers == HelperStep \/ Expire \/ ServerFeed \/ ServerClose

\* The client always takes its next step, a pending timeout always fires and
\* time passes; the server is free to do nothing.
SpecHelpers ==
    InitHelpers /\ [][NextHelpers]_vars /\ WF_vars(HelperStep) /\ WF_vars(Expire)

\* ------------------------------------------------------------------------
\* Test PCM generator (gen_test_pcm.py): the wait for transmit completion
\* after CMD:SENDBUFFER, against a server that sends some lines, may send
\* more, may fall silent and may close the connection.
\* ------------------------------------------------------------------------
TX_IDLE == <<"T", "X", ":", "I", "D", "L", "E">>
OK_LINE == <<"O", "K">> \o LF

GenTexts == {
    TX_IDLE \o LF,
    OK_LINE \o TX_IDLE \o LF,
    OK_LINE,
    <<>> }

InitGenWait ==
    /\ script = "gen_wait"
    /\ pc = "g_recv"
    /\ test_data = <<>> /\ rx_data = <<>> /\ result = NoResult
    /\ scenario = [name |-> "none", path |-> PyNone, text |-> <<>>]
    /\ ctrlIn \in GenTexts
    /\ response = <<>>
    /\ pcm_file = PyNone
    /\ capExit = "none"
    /\ sent = <<>>
    /\ out = <<>>
    /\ dataOut = <<>>
    /\ dataBuf = <<>>
    /\ got_complete = FALSE
    /\ RefIdle /\ IopIdle /\ HelpIdle /\ ToolIdle

\* some line of the stripped response holds TX:IDLE
HasIdleLine(resp) ==
    LET lines == Split(resp, "\n")
    IN  \E k \in 1..Len(lines) : Contains(lines[k], TX_IDLE)

\* response = ctrl.recv(1024).decode().strip(), a non-empty chunk
GenWaitRecv ==
    /\ script = "gen_wait" /\ pc = "g_recv"
    /\ \E n \in 1..Len(ctrlIn) :
        /\ ctrlIn' = Drop(ctrlIn, n)
        /\ response' = Strip(Take(ctrlIn, n))
    /\ pc' = "g_lines"
    /\ UNCHANGED <<script, toolVars, helpVars, verdictVars, scenario, pcm_file, capExit,
                   sent, out, dataOut, dataBuf, got_complete, refVars, iopVars>>

\* ctrl.recv(1024) returns b'': the server has closed the connection
GenWaitRecvEmpty ==
    /\ script = "gen_wait" /\ pc = "g_recv"
    /\ ctrlIn = <<>> /\ closed
    /\ response' = <<>>
    /\ pc' = "g_lines"
    /\ UNCHANGED <<script, toolVars, helpVars, verdictVars, scenario, ctrlIn, pcm_file,
                   capExit, sent, out, dataOut, dataBuf, got_complete, refVars,
                   iopVars>>

\* except socket.timeout: nothing arrived for 60 s
GenWaitTimeout ==
    /\ script = "gen_wait" /\ pc = "g_recv"
    /\ ctrlIn = <<>> /\ ~closed
    /\ out' = Append(out, "Timeout waiting for response")
    /\ pc' = "g_timeout"
    /\ UNCHANGED <<script, toolVars, helpVars, verdictVars, scenario, ctrlIn, response,
                   pcm_file, capExit, sent, dataOut, dataBuf, got_complete,
                   refVars, iopVars>>

\* for line in response.split('\n'): if 'TX:IDLE' in line: return
GenWaitLines ==
    /\ script = "gen_wait" /\ pc = "g_lines"
    /\ IF HasIdleLine(response)
       THEN out' = Append(out, "TX Complete!") /\ pc' = "g_complete"
       ELSE out' = out /\ pc' = "g_recv"
    /\ UNCHANGED <<script, toolVars, helpVars, verdictVars, scenario, ctrlIn, response,
                   pcm_file, capExit, sent, dataOut, dataBuf, got_complete,
                   refVars, iopVars>>

\* the server sends one more character of some other line
GenServerSend ==
    /\ script = "gen_wait" /\ pc \in {"g_recv", "g_lines"}
    /\ ~closed /\ fed < MaxFeed
    /\ \E c \in {"x", "\n"} : ctrlIn' = Append(ctrlIn, c)
    /\ fed' = fed + 1
    /\ UNCHANGED <<script, toolVars, pc, closed, expired, verdictVars, scenario, response,
                   pcm_file, capExit, sent, out, dataOut, dataBuf,
                   got_complete, refVars, iopVars>>

\* the server closes the control connection
GenServerClose ==
    /\ script = "gen_wait" /\ pc \in {"g_recv", "g_lines"}
    /\ ~closed
    /\ closed' = TRUE
    /\ UNCHANGED <<script, toolVars, pc, expired, fed, verdictVars, runVars, refVars,
                   iopVars>>

GenWaitStep ==
    GenWaitRecv \/ GenWaitRecvEmpty \/ GenWaitTimeout \/ GenWaitLines

NextGenWait == GenWaitStep \/ GenServerSend \/ GenServerClose

\* The client always takes its next step and a pending timeout always
\* fires; the server is free to do nothing.
SpecGenWait == InitGenWait /\ [][NextGenWait]_vars /\ WF_vars(GenWaitStep)

\* ------------------------------------------------------------------------
\* PCM comparison tool (compare_pcm.py): compare(a, b) on two analyses.
\* RMS levels are whole numbers, peak frequencies are in tenths of a hertz,
\* DC offsets are whole numbers; the arithmetic is exact.
\* ------------------------------------------------------------------------
RmsValues == 0..MaxRms
FreqValues == {17500, 18000, 18499, 18500, 18501}
DcValues == {0 - 501, 0 - 500, 0, 500, 501}
Analyses == [rms : RmsValues, peak_freq_fft : FreqValues, dc_offset : DcValues]

FreqLimitTight == 500 - 1
\* 50 Hz, in tenths of a hertz
FreqLimit == 500
DcLimitLoose == 500 + 1
DcLimit == 500

RMS_ISSUE == "Large RMS difference"
FREQ_ISSUE == "Peak frequency differs"
DC_ISSUE == "High DC offset detected"
NO_ISSUES == "No obvious issues detected"

RmsRatioOutsideOrAt(a, b) == 2 * a <= b \/ a >= 2 * b
\* rms_ratio < 0.5 or rms_ratio > 2.0, with rms_ratio = a / b and b > 0
RmsRatioOutside(a, b) == 2 * a < b \/ a > 2 * b

\* the list of issues compare(a, b) collects, in order
Issues(a, b) ==
    (IF b.rms > 0 /\ RmsRatioOutside(a.rms, b.rms) THEN <<RMS_ISSUE>> ELSE <<>>)
    \o (IF Abs(a.peak_freq_fft - b.peak_freq_fft) > FreqLimit
        THEN <<FREQ_ISSUE>> ELSE <<>>)
    \o (IF Abs(a.dc_offset) > DcLimit \/ Abs(b.dc_offset) > DcLimit
        THEN <<DC_ISSUE>> ELSE <<>>)

\* what compare(a, b) prints after the comparison header
ComparePrints(a, b) ==
    IF Issues(a, b) # <<>> THEN <<"POTENTIAL ISSUES:">> \o Issues(a, b)
    ELSE <<NO_ISSUES>>

InitTool(name, inputs) ==
    /\ script = name
    /\ pc = "call"
    /\ test_data = <<>> /\ rx_data = <<>> /\ result = NoResult
    /\ scenario = [name |-> "none", path |-> PyNone, text |-> <<>>]
    /\ ctrlIn = <<>>
    /\ response = <<>>
    /\ pcm_file = PyNone
    /\ capExit = "none"
    /\ sent = <<>>
    /\ out = <<>>
    /\ dataOut = <<>>
    /\ dataBuf = <<>>
    /\ got_complete = FALSE
    /\ RefIdle /\ IopIdle /\ HelpIdle
    /\ input \in inputs
    /\ output = <<>>

InitCompare == InitTool("compare", [a : Analyses, b : Analyses])

\* compare(a, b)
Compare ==
    /\ script = "compare" /\ pc = "call"
    /\ output' = ComparePrints(input.a, input.b)
    /\ pc' = "done"
    /\ UNCHANGED <<script, input, verdictVars, runVars, refVars, iopVars,
                   helpVars>>

\* ------------------------------------------------------------------------
\* PCM analysis (compare_pcm.py): analyze_pcm on the bytes of a capture.
\* ------------------------------------------------------------------------
SAMPLE_RATE_CD == 44000 + 100
SAMPLE_RATE == 48000

\* the two bytes (low, high) of representative 16-bit samples: 0, 99, 100,
\* 2999, 3000, 9999, 10000, -99, -100, -3000, -10000, -32768
SamplePairs == {
    <<0, 0>>, <<99, 0>>, <<100, 0>>, <<183, 11>>, <<184, 11>>, <<15, 39>>,
    <<16, 39>>, <<157, 255>>, <<156, 255>>, <<72, 244>>, <<240, 216>>,
    <<0, 128>> }

RECURSIVE Flatten(_)
Flatten(ps) == IF ps = <<>> THEN <<>> ELSE Head(ps) \o Flatten(Tail(ps))

\* captures: whole samples, possibly followed by one odd byte
Captures ==
    {Flatten(ps) \o t : ps \in SeqsUpTo(SamplePairs, MaxSamples),
                        t \in {<<>>, <<0>>}}

\* struct '<h': one little-endian signed 16-bit value
Int16(lo, hi) ==
    LET u == lo + 256 * hi
    IN  IF u >= 32768 THEN u - 65536 ELSE u

\* struct.unpack(f'<{n}h', data)
Unpack(n, data) == [k \in 1..n |-> Int16(data[2 * k - 1], data[2 * k])]

\* np.sum(mask): how many samples satisfy the test
CountWhere(samples, Test(_)) ==
    Cardinality({k \in 1..Len(samples) : Test(samples[k])})

IsSilent(x) == Abs(x) < 100
IsLowInclusive(x) == Abs(x) >= 100 /\ Abs(x) <= 3000
IsLow(x) == Abs(x) >= 100 /\ Abs(x) < 3000
IsMed(x) == Abs(x) >= 3000 /\ Abs(x) < 10000
IsHigh(x) == Abs(x) >= 10000

\* num_samples = len(data) // 2
NumSamples(data) == Len(data) \div 2

\* a true division, kept as the fraction num / den
Fraction(n, m) == [num |-> n, den |-> m]

\* the dictionary analyze_pcm returns (the fields the histogram and the
\* size report are made of)
Analysis(data) ==
    LET num_samples == NumSamples(data)
        samples == Unpack(num_samples, data)
        silent == CountWhere(samples, IsSilent)
        low == CountWhere(samples, IsLow)
        med == CountWhere(samples, IsMed)
        high == CountWhere(samples, IsHigh)
    IN  [size |-> Len(data),
         samples |-> num_samples,
         duration |-> Fraction(num_samples, SAMPLE_RATE),
         silent |-> silent, low |-> low, med |-> med, high |-> high,
         silent_pct |-> Fraction(100 * silent, num_samples),
         low_pct |-> Fraction(100 * low, num_samples),
         med_pct |-> Fraction(100 * med, num_samples),
         high_pct |-> Fraction(100 * high, num_samples)]

\* struct.unpack needs exactly 2 * num_samples bytes; np.min of an empty
\* array raises
AnalysisRaises(data) == Len(data) # 2 * NumSamples(data) \/ NumSamples(data) = 0

InitAnalyze == InitTool("analyze_pcm", Captures)

\* analyze_pcm(path) returns the dictionary
AnalyzePcm ==
    /\ script = "analyze_pcm" /\ pc = "call"
    /\ ~AnalysisRaises(input)
    /\ output' = Analysis(input)
    /\ pc' = "done"
    /\ UNCHANGED <<script, input, verdictVars, runVars, refVars, iopVars,
                   helpVars>>

\* analyze_pcm(path) ends in an exception
AnalyzePcmRaises ==
    /\ script = "analyze_pcm" /\ pc = "call"
    /\ AnalysisRaises(input)
    /\ pc' = "raised"
    /\ UNCHANGED <<script, toolVars, verdictVars, runVars, refVars, iopVars,
                   helpVars>>

\* ------------------------------------------------------------------------
\* Preamble decoder (analyze_preamble.py): the mapping of one baseband
\* symbol to its 8-PSK index.  Phases are in half degrees.
\* ------------------------------------------------------------------------
\* symbols of amplitude 1..MaxAmp at every half degree from -179.5 to 359.5
Symbols == [amp : 1..MaxAmp, phase : (0 - 359)..719]

\* np.angle(symbol) * 180 / np.pi: the phase in (-180, 180], whatever the
\* amplitude
AngleOf(sym) == IF sym.phase > 360 THEN sym.phase - 720 ELSE sym.phase

RoundDown(n, m) == n \div m
\* np.round(n / m): to the nearest whole number, ties to the even one
RoundHalfEven(n, m) ==
    LET q == n \div m
        r == n - q * m
    IN  IF 2 * r < m THEN q
        ELSE IF 2 * r > m THEN q + 1
        ELSE IF q % 2 = 0 THEN q ELSE q + 1

\* np.round(phases / 45) % 8
Psk8(h) == RoundHalfEven(h, 90) % 8

InitPreamble == InitTool("analyze_preamble", Symbols)

\* phases = np.angle(symbols) * 180 / np.pi; psk8_symbols = ...
MapSymbol ==
    /\ script = "analyze_preamble" /\ pc = "call"
    /\ output' = Psk8(AngleOf(input))
    /\ pc' = "done"
    /\ UNCHANGED <<script, input, verdictVars, runVars, refVars, iopVars,
                   helpVars>>

\* ------------------------------------------------------------------------
\* Preamble decoder (analyze_preamble.py): samples per symbol, the filter
\* window and the symbol sampling positions.
\* ------------------------------------------------------------------------
SampleRates == {8000, 44100, 48000}
BaudRates == {75, 1200, 1800, 2400}

SamplesPerSymbolRounded(sample_rate, baud_rate) ==
    RoundHalfEven(sample_rate, baud_rate)
\* int(sample_rate / baud_rate)
SamplesPerSymbol(sample_rate, baud_rate) == sample_rate \div baud_rate

\* window, and idx of the first three symbols
SymbolTiming(sample_rate, baud_rate) ==
    LET samples_per_symbol == SamplesPerSymbol(sample_rate, baud_rate)
    IN  [samples_per_symbol |-> samples_per_symbol,
         window |-> samples_per_symbol,
         idx |-> [i \in 0..2 |->
                    i * samples_per_symbol + samples_per_symbol \div 2]]

InitTiming ==
    InitTool("symbol_timing", [sample_rate : SampleRates, baud_rate : BaudRates])

\* analyze_preamble: samples_per_symbol, window, idx
Timing ==
    /\ script = "symbol_timing" /\ pc = "call"
    /\ output' = SymbolTiming(input.sample_rate, input.baud_rate)
    /\ pc' = "done"
    /\ UNCHANGED <<script, input, verdictVars, runVars, refVars, iopVars,
                   helpVars>>

\* ------------------------------------------------------------------------
\* PCM analysis (compare_pcm.py): the list of top frequencies, computed
\* from a magnitude spectrum whose bins are 20 Hz apart (bin 1 is 0 Hz).
\* ------------------------------------------------------------------------
\* np.fft.rfftfreq(len(samples), 1/48000) for 2400 samples
BinHz == 48000 \div 2400
LowCut == 100
LowBins == LowCut \div BinHz + 1
TopCandidates == 10
TopReported == 5

FreqOfBin(b) == BinHz * (b - 1)

\* spectra of n bins with pairwise different magnitudes 1..n: ranked[r] tells
\* whether the bin of magnitude r is at or below 100 Hz
Rankings ==
    UNION {{k \in [1..n -> {"lo", "hi"}] :
                Cardinality({r \in 1..n : k[r] = "lo"}) = Min(n, LowBins)}
           : n \in 1..MaxBins}
BinOfRank(k, r) ==
    LET same == Cardinality({q \in 1..r : k[q] = k[r]})
    IN  IF k[r] = "lo" THEN same ELSE Min(Len(k), LowBins) + same
Spectrum(k) ==
    [b \in 1..Len(k) |-> CHOOSE r \in 1..Len(k) : BinOfRank(k, r) = b]
Spectra == {Spectrum(k) : k \in Rankings}

\* np.argsort(magnitude)[::-1]: the bins by descending magnitude
ArgSortDesc(magnitude) ==
    [j \in 1..Len(magnitude) |->
        CHOOSE b \in 1..Len(magnitude) :
            Cardinality({c \in 1..Len(magnitude) :
                            magnitude[c] > magnitude[b]}) = j - 1]

AboveLowCut(b) == FreqOfBin(b) > LowCut

\* top_indices = np.argsort(magnitude)[-10:][::-1];
\* top_freqs = [... for i in top_indices if freqs[i] > 100]; top_freqs[:5]
TopFreqs(magnitude) ==
    LET top_indices == Take(ArgSortDesc(magnitude), TopCandidates)
        top_freqs == SelectSeq(top_indices, AboveLowCut)
    IN  Take(top_freqs, TopReported)

InitTopFreqs == InitTool("top_freqs", Spectra)

\* analyze_pcm: 'top_freqs' of the returned dictionary, as bin numbers
ListTopFreqs ==
    /\ script = "top_freqs" /\ pc = "call"
    /\ output' = TopFreqs(input)
    /\ pc' = "done"
    /\ UNCHANGED <<script, input, verdictVars, runVars, refVars, iopVars,
                   helpVars>>

\* ------------------------------------------------------------------------
\* Analysis specification: one call of compare, analyze_pcm or the symbol
\* mapping
\* ------------------------------------------------------------------------
InitTools ==
    InitCompare \/ InitAnalyze \/ InitPreamble \/ InitTiming \/ InitTopFreqs
NextTools ==
    \/ Compare \/ AnalyzePcm \/ AnalyzePcmRaises \/ MapSymbol
    \/ Timing \/ ListTopFreqs
SpecTools == InitTools /\ [][NextTools]_vars

\* ------------------------------------------------------------------------
\* Properties of the verdict routines (checked under SpecVerdict)
\* ------------------------------------------------------------------------
HasSubstring(s, pat) ==
    \E k \in 1..Len(s) :
        \A j \in 1..Len(pat) : k + j - 1 <= Len(s) /\ s[k + j - 1] = pat[j]
IsPrefix(S, R) == Len(R) >= Len(S) /\ SubSeq(R, 1, Len(S)) = S
TrailingOf(S, R) == SubSeq(R, Len(S) + 1, Len(R))
NonZeroPositions(T) == {i \in 1..Len(T) : T[i] # 0}
MismatchPositions(S, R) == {i \in 1..Min(Len(S), Len(R)) : R[i] # S[i]}
Judged(s) == pc = "done" /\ script = s

\* C2: in the AFC matrix verdict, for R = S followed by trailing bytes T the
\* verdict is PASS when T holds at most 5 non-zero bytes and FAIL when it
\* holds 6 or more; zero bytes of T never count.
C2_TrailingTolerance ==
    (Judged("afc") /\ IsPrefix(test_data, rx_data)) =>
        LET nz == Cardinality(NonZeroPositions(TrailingOf(test_data, rx_data)))
        IN  /\ nz <= 5 => result.verdict = "PASS"
            /\ nz >= 6 => result.verdict = "FAIL"

C2_Witness ==
    /\ Judged("afc") /\ IsPrefix(test_data, rx_data)
    /\ Cardinality(NonZeroPositions(TrailingOf(test_data, rx_data))) = 6
    /\ \E i \in 1..Len(rx_data) : i > Len(test_data) /\ rx_data[i] = 0
    /\ result.verdict = "FAIL"

\* C3: in every verdict routine (AFC matrix, AFC single-pair, AWGN), received
\* bytes identical to the sent bytes give PASS and no byte-error count.
C3_IdenticalPasses ==
    (pc = "done" /\ script \in VerdictScripts /\ rx_data = test_data) =>
        result.verdict = "PASS" /\ result.errors = NoCount

C3_Witness ==
    /\ Judged("afc1") /\ rx_data = test_data /\ Len(test_data) = MaxSentLen
    /\ result.verdict = "PASS"

\* C25: in every verdict routine a FAIL reported with a byte-error count
\* has a count of at least 1.
C25_FailCountsPositive ==
    (pc = "done" /\ script \in VerdictScripts /\ result.verdict = "FAIL"
        /\ result.errors # NoCount) => result.errors >= 1

\* C4: in both AFC variants, whenever a byte-error count is reported it
\* equals the number of mismatching positions below min(len(R), len(S))
\* plus the length shortfall max(0, len(S) - len(R)).
C4_ErrorCount ==
    (pc = "done" /\ script \in {"afc", "afc1"} /\ result.errors # NoCount) =>
        result.errors = Cardinality(MismatchPositions(test_data, rx_data))
                        + Max(0, Len(test_data) - Len(rx_data))

\* C19: the AWGN verdict is PASS exactly when the first len(S) received
\* bytes equal the sent message S (later bytes are ignored); otherwise it
\* is FAIL with the number of positions below min(len(R), len(S)) at which
\* R and S differ.
C19_AwgnPrefixMatch ==
    Judged("awgn") =>
        /\ result.verdict \in {"PASS", "FAIL"}
        /\ result.verdict = "PASS" <=> IsPrefix(test_data, rx_data)
        /\ result.verdict = "FAIL" =>
                result.errors = Cardinality(MismatchPositions(test_data, rx_data))

C19_Witness ==
    /\ Judged("awgn") /\ result.verdict = "PASS"
    /\ Len(rx_data) > Len(test_data)
    /\ rx_data[Len(rx_data)] # 0

\* C20: for every S and R the single-pair AFC variant classifies the
\* result as the matrix variant does (PASS in one exactly when PASS in the
\* other) and on FAIL reports the same byte-error count (where the matrix
\* variant reports one).
C20_SameVerdict ==
    Judged("afc1") =>
        LET matrix == VerdictAfc(test_data, rx_data)
        IN  /\ result.verdict = "PASS" <=> matrix.verdict = "PASS"
            /\ (result.verdict = "FAIL" /\ matrix.errors # NoCount) =>
                    result.errors = matrix.errors

\* ------------------------------------------------------------------------
\* Properties of the capture-producing runs (checked under SpecRun)
\* ------------------------------------------------------------------------
Range(q) == {q[i] : i \in 1..Len(q)}
SentCmds(c) == {i \in 1..Len(sent) : sent[i].cmd = c}
PastCapture == script \in RunScripts /\ pc # "capture"

\* C1: the FILE: marker search of the capture-wait is robust to chunking:
\* however the server's output is cut into chunks, once the stream
\* "FILE:<path>" LF "OK:SENDBUFFER" has been received up to OK:SENDBUFFER the
\* wait ends with pcm_file = <path>.
C1_SplitRobust ==
    (PastCapture /\ scenario.name = "lf" /\ capExit = "ok") =>
        pcm_file = scenario.path

\* C6: when the capture-wait ends without a captured path the run prints
\* the missing-capture message, sends no CMD:CHANNEL and no
\* CMD:RXAUDIOINJECT and gives no verdict; and every CMD:RXAUDIOINJECT sent
\* carries exactly the captured path.
C6_MissingCaptureAborts ==
    /\ (PastCapture /\ Falsy(pcm_file)) =>
            /\ SentCmds("CHANNEL") = {} /\ SentCmds("RXAUDIOINJECT") = {}
            /\ result = NoResult
            /\ pc = "done" => "no PCM file" \in Range(out)
    /\ \A i \in SentCmds("RXAUDIOINJECT") :
            ~Falsy(pcm_file) /\ sent[i].arg = pcm_file

\* the chunk a step of the capture-wait has just received
Consumed == SubSeq(ctrlIn, 1, Len(ctrlIn) - Len(ctrlIn'))

CaptureStep ==
    script \in RunScripts =>
        /\ pc = "capture" =>
            /\ pc' = "capture" => ~HasSubstring(response', OK_SENDBUFFER)
            /\ (pc' # "capture" /\ ~HasSubstring(response', OK_SENDBUFFER)) =>
                    capExit' \in {"timeout", "deadline"} /\ ctrlIn' = ctrlIn
            /\ HasSubstring(response', OK_SENDBUFFER) =>
                    pc' = "captured" /\ capExit' = "ok"
            /\ response' = response \o Consumed
            /\ IF HasSubstring(Consumed, FILE_MARK)
               THEN HasSubstring(Consumed, FILE_MARK \o pcm_file')
               ELSE pcm_file' = pcm_file
        /\ pc # "capture" => pcm_file' = pcm_file /\ response' = response

\* C26: the capture-wait ends exactly when the accumulated text holds
\* OK:SENDBUFFER, on a receive timeout or at the 15 s deadline; pcm_file
\* changes only by a chunk received inside the loop that holds FILE:, each
\* such chunk replacing the earlier value, and never after the loop ended.
C26_CaptureWaitEnds == [][CaptureStep]_vars

\* FILE: arrives only after the chunk completing OK:SENDBUFFER
C26_Witness ==
    /\ PastCapture /\ scenario.name = "late" /\ capExit = "ok"
    /\ pcm_file = PyNone /\ HasSubstring(ctrlIn, FILE_MARK)

PathStep ==
    (/\ script \in RunScripts /\ pc = "capture"
     /\ \E t \in {LF, CRLF} :
            HasSubstring(Consumed, FILE_MARK \o PathA \o t \o OK_SENDBUFFER))
    => pcm_file' = PathA

\* C27: for a chunk '...FILE:<path><terminator><further lines>' with
\* terminator LF or CR LF, pcm_file is exactly <path>, no terminator or
\* other trailing character included.
C27_PathExact == [][PathStep]_vars

DataPollStep ==
    script \in RunScripts =>
        /\ (pc = "poll_ctrl" /\ pc' # pc) => pc' \in {"poll_data", "cleanup"}
        /\ (pc = "poll_data" /\ pc' # pc) => pc' = "poll_ctrl"
        /\ rx_data' # rx_data => pc = "poll_data"
        /\ pc \in {"cleanup", "judge", "done"} =>
                pc' \in {"cleanup", "judge", "done"} /\ rx_data' = rx_data
        /\ \E n \in 0..Len(dataOut') : rx_data' = SubSeq(dataOut', 1, n)
        /\ rx_data' \o dataBuf' = dataOut'

\* C23: in the injection-wait loop the data port is polled after every
\* control poll that did not yield COMPLETE and is not read once COMPLETE
\* was seen or the deadline passed; rx_data is always a prefix of what the
\* server wrote to the data port, the bytes not yet read being left out.
C23_DataPollDiscipline == [][DataPollStep]_vars

\* COMPLETE arrived with one byte read and one byte still unread
C23_Witness ==
    /\ script = "afc" /\ pc = "done" /\ got_complete
    /\ Len(rx_data) = 1 /\ Len(dataBuf) = 1
    /\ dataOut = rx_data \o dataBuf

Impairments == {i \in SentCmds("CHANNEL") : sent[i].arg # <<"OFF">>}
ChannelOffs == {i \in SentCmds("CHANNEL") : sent[i].arg = <<"OFF">>}

\* C24: in the AFC and AWGN tests the impairment command is sent after the
\* capture-wait and before CMD:RXAUDIOINJECT, and a run that sent one sends
\* CMD:CHANNEL OFF after the injection wait has ended and before it closes
\* the connection.
C24_ChannelBracketsInjection ==
    script \in {"afc", "afc1", "awgn"} =>
        /\ Impairments # {} => pc \notin {"capture", "captured"} /\ capExit # "none"
        /\ \A i \in SentCmds("RXAUDIOINJECT") :
                Impairments # {} /\ \A j \in Impairments : j < i
        /\ \A k \in ChannelOffs :
                /\ pc \in {"judge", "done"}
                /\ \E i \in SentCmds("RXAUDIOINJECT") : i < k
                /\ \A j \in Impairments : j < k
        /\ (pc \in {"judge", "done"} /\ Impairments # {}) =>
                sent[Len(sent)] = Cmd("CHANNEL", <<"OFF">>)

\* the injection wait ended by its deadline and the impairment was cleared
C24_Witness ==
    /\ script = "awgn" /\ pc = "done" /\ ~got_complete
    /\ Len(sent) = 3
    /\ sent[1] = Cmd("CHANNEL", <<"AWGN">>)
    /\ sent[2].cmd = "RXAUDIOINJECT"
    /\ sent[3] = Cmd("CHANNEL", <<"OFF">>)

\* ------------------------------------------------------------------------
\* Properties of the reference suite and the interop test (under SpecRx)
\* ------------------------------------------------------------------------

\* C5: test_mode returns success exactly when the decoded data-port output
\* is non-empty and contains QUICK BROWN FOX, whatever got_dcd and
\* got_complete are.
C5_RefSuccess ==
    (script = "ref" /\ pc = "done") =>
        (success = "True"
            <=> (decoded # <<>> /\ HasSubstring(decoded, QUICK_BROWN_FOX)))

C5_Witness ==
    /\ script = "ref" /\ pc = "done" /\ success = "True"
    /\ ~got_dcd /\ ~got_complete
    /\ decoded[1] = Replacement

\* C7: in the reference suite and in the interop test the data-port
\* connection is established (and in the interop test the reader thread is
\* started) before CMD:RXAUDIOINJECT is sent.
C7_DataPortBeforeInject ==
    (script \in {"ref", "interop"} /\ SentCmds("RXAUDIOINJECT") # {}) =>
        dataConnected /\ (script = "interop" => readerStarted)

C7_Witness ==
    /\ script = "interop" /\ SentCmds("RXAUDIOINJECT") # {}
    /\ dataConnected /\ readerStarted /\ rpc = "recv"

\* C8 as stated: whenever the stop flag is set, a COMPLETE message was
\* received and the 3-second grace period has elapsed.
C8_StopAfterComplete ==
    (script = "interop" /\ stop) => (sawComplete /\ slept = 3)

\* C8 as amended: the stop flag is set either after a COMPLETE message and
\* the full 3-second grace period, or after all 30 receive attempts ended
\* without COMPLETE.
C8_StopAfterCompleteOrAttempts ==
    (script = "interop" /\ stop) =>
        \/ sawComplete /\ slept = 3
        \/ ~sawComplete /\ attempts = 30 /\ slept = 0

C8_Witness ==
    script = "interop" /\ stop /\ sawComplete /\ slept = 3 /\ attempts > 0

RefChecked ==
    script = "ref" /\ (pc \in {"r_read", "r_eval"} \/ (pc = "done" /\ sent # <<>>))
StatusLines ==
    LET lines == Split(all_responses, "\n")
    IN  {j \in 1..Len(lines) : HasSubstring(lines[j], STATUS_RX)}
Carrier(j) == ~HasSubstring(Split(all_responses, "\n")[j], NO_DCD)

\* C22 as stated: got_dcd is true when some received line holding
\* STATUS:RX: does not hold NO DCD, and false when there is no such line.
C22_DcdAnyStatusLine ==
    RefChecked => (got_dcd <=> \E j \in StatusLines : Carrier(j))

\* C22 as amended: got_dcd is true exactly when the received control text
\* has a line holding STATUS:RX: and the first such line does not hold
\* NO DCD; later status lines do not count.
C22_DcdFirstStatusLine ==
    RefChecked =>
        (got_dcd <=> \E j \in StatusLines :
                        Carrier(j) /\ \A k \in StatusLines : j <= k)

\* NO DCD first, a detected mode on a later line: no detection reported
C22_Witness ==
    /\ RefChecked /\ scenario.name = "latedcd"
    /\ all_responses = scenario.text
    /\ ~got_dcd /\ got_complete

\* C12: a socket read that exceeds its timeout never ends the script with
\* an unhandled error; a timeout on the ready banner is a soft failure.
C12_TimeoutNeverAborts ==
    ~(/\ script \in {"ref", "interop"}
      /\ pc = "raised"
      /\ out # <<>> /\ out[Len(out)] = "socket.timeout")

\* ------------------------------------------------------------------------
\* Properties of the response-reading helpers (under SpecHelpers)
\* ------------------------------------------------------------------------
\* C10: whatever the server does (silent, sending, sending without a
\* newline, closing), every response-reading helper ends after finitely
\* many receive attempts.
C10_HelpersEnd == <>(pc \in {"returned", "raised"})

RECURSIVE Xs(_)
Xs(n) == IF n = 0 THEN <<>> ELSE <<"x">> \o Xs(n - 1)

\* C21: recv_until accumulates every received chunk in order, returns the
\* accumulated text as soon as it holds the pattern (also when the pattern
\* came split over chunks), returns what it has once the overall timeout
\* has elapsed, never raises, and after a receive timeout just tries again.
C21_RecvUntil ==
    script = "recv_until" =>
        /\ \E t \in HelperTexts : response \o ctrlIn = t \o Xs(fed)
        /\ pc \in {"h_recv", "h_test", "returned"}
        /\ pc \in {"h_recv", "h_test"} => ~HasSubstring(response, INJECT_COMPLETE)
        /\ pc = "returned" => HasSubstring(response, INJECT_COMPLETE) \/ expired

\* the first five characters of the pattern have arrived and recv_until
\* goes on receiving
C21_Witness ==
    /\ script = "recv_until" /\ pc = "h_test" /\ ~expired
    /\ response = SubSeq(INJECT_COMPLETE, 1, 5)
    /\ ctrlIn # <<>>

\* ------------------------------------------------------------------------
\* Properties of the PCM generator's completion wait (under SpecGenWait)
\* ------------------------------------------------------------------------
\* C11: after CMD:SENDBUFFER the wait for transmit completion always ends,
\* by a line holding TX:IDLE or by the reported timeout, whatever the
\* server does.
C11_WaitEnds == <>(pc \in {"g_complete", "g_timeout"})

\* ------------------------------------------------------------------------
\* Properties of the analysis tools (under SpecTools)
\* ------------------------------------------------------------------------
Compared == script = "compare" /\ pc = "done"
Raised(flag) == \E k \in 1..Len(output) : output[k] = flag

\* C13 as stated: with b.rms > 0 the RMS flag is raised exactly when
\* a.rms / b.rms is at or outside 0.5 and 2.0 (the bounds included).
C13_RmsFlagAtBounds ==
    (Compared /\ input.b.rms > 0) =>
        (Raised(RMS_ISSUE)
            <=> (2 * input.a.rms <= input.b.rms \/ input.a.rms >= 2 * input.b.rms))

\* C13 as amended: with b.rms > 0 the RMS flag is raised exactly when
\* a.rms / b.rms is strictly below 0.5 or strictly above 2.0; a ratio of
\* exactly 0.5 or exactly 2.0 does not raise it.
C13_RmsFlagOutsideBounds ==
    (Compared /\ input.b.rms > 0) =>
        (Raised(RMS_ISSUE)
            <=> (2 * input.a.rms < input.b.rms \/ input.a.rms > 2 * input.b.rms))

C13_Witness ==
    /\ Compared /\ input.a.rms = 2 /\ input.b.rms = 1
    /\ ~Raised(RMS_ISSUE)

\* C14: the peak-frequency flag is raised exactly when the two peak
\* frequencies differ by more than 50 Hz; exactly 50 Hz does not raise it,
\* 50.1 Hz does.
C14_FreqFlag ==
    Compared =>
        (Raised(FREQ_ISSUE)
            <=> (\/ input.a.peak_freq_fft - input.b.peak_freq_fft >= 501
                 \/ input.b.peak_freq_fft - input.a.peak_freq_fft >= 501))

C14_Witness ==
    /\ Compared /\ input.a.peak_freq_fft = 18501 /\ input.b.peak_freq_fft = 18000
    /\ Raised(FREQ_ISSUE)

\* C15: the DC flag is raised exactly when either DC offset exceeds 500 in
\* magnitude; the success line is printed exactly when none of the three
\* flags is raised; with b.rms = 0 the RMS flag is never raised.
C15_DcFlagAndSuccess ==
    Compared =>
        /\ Raised(DC_ISSUE)
            <=> \E x \in {input.a.dc_offset, input.b.dc_offset} :
                    x > 500 \/ x < 0 - 500
        /\ Raised(NO_ISSUES)
            <=> ~(Raised(RMS_ISSUE) \/ Raised(FREQ_ISSUE) \/ Raised(DC_ISSUE))
        /\ input.b.rms = 0 => ~Raised(RMS_ISSUE)

C15_Witness ==
    /\ Compared /\ input.b.rms = 0 /\ input.a.rms > 0
    /\ input.a.dc_offset = 0 - 500 /\ input.b.dc_offset = 500
    /\ Raised(NO_ISSUES)

Mapped == script = "analyze_preamble" /\ pc = "done"

\* C16: a phase of k * 45 degrees maps to symbol k for k in 0..7, phases in
\* [337.5, 360) map back to 0, the index does not depend on the amplitude
\* (it is the multiple of 45 degrees nearest to the phase, modulo 8), and
\* every phase, negative ones included, yields an index in 0..7.
C16_PhaseToSymbol ==
    Mapped =>
        /\ output \in 0..7
        /\ \A k \in 0..7 :
            input.phase \in {90 * k, 90 * k - 720} => output = k
        /\ input.phase \in 675..719 => output = 0
        /\ input.phase \in (0 - 45)..(0 - 1) => output = 0
        /\ input.phase % 90 # 45 => output = ((input.phase + 45) \div 90) % 8

C16_Witness ==
    Mapped /\ input.amp = 2 /\ input.phase = 675 /\ output = 0

Analyzed == script = "analyze_pcm" /\ pc = "done"

CountAbsIn(lo, hi) ==
    Cardinality({k \in 1..(Len(input) \div 2) :
        LET u == input[2 * k - 1] + 256 * input[2 * k]
            x == IF u >= 32768 THEN 65536 - u ELSE u
        IN  lo <= x /\ x <= hi})

Timed == script = "symbol_timing" /\ pc = "done"
WindowAndStride ==
    /\ output.window = output.samples_per_symbol
    /\ \A i \in 0..2 :
        output.idx[i] = i * output.samples_per_symbol
                        + output.samples_per_symbol \div 2

\* C28 as stated: samples per symbol is round(sample_rate / baud_rate) (20
\* at 48000 Hz and 2400 baud); it is the filter window and the sampling
\* stride, each symbol sampled at offset samples_per_symbol / 2 (integer
\* division).
C28_SamplesPerSymbolRounded ==
    Timed =>
        /\ 2 * Abs(input.baud_rate * output.samples_per_symbol - input.sample_rate)
                <= input.baud_rate
        /\ (input.sample_rate = 48000 /\ input.baud_rate = 2400) =>
                output.samples_per_symbol = 20
        /\ WindowAndStride

\* C28 as amended: samples per symbol is sample_rate / baud_rate with the
\* fraction dropped (20 at 48000 Hz and 2400 baud); window, stride and
\* offset as stated.
C28_SamplesPerSymbolTruncated ==
    Timed =>
        /\ input.baud_rate * output.samples_per_symbol <= input.sample_rate
        /\ input.sample_rate < input.baud_rate * (output.samples_per_symbol + 1)
        /\ (input.sample_rate = 48000 /\ input.baud_rate = 2400) =>
                output.samples_per_symbol = 20
        /\ WindowAndStride

\* 48000 / 1800 = 26.67: 26 samples per symbol, sampled at 13, 39, 65
C28_Witness ==
    /\ Timed /\ input.sample_rate = 48000 /\ input.baud_rate = 1800
    /\ output.samples_per_symbol = 26 /\ output.idx[1] = 39

Listed == script = "top_freqs" /\ pc = "done"
HighBins == {b \in 1..Len(input) : AboveLowCut(b)}

\* C29: the top-peaks list is the five largest-magnitude bins above
\* 100 Hz in descending order of magnitude (all of them when fewer than
\* five exist); bins at or below 100 Hz are never listed and never make
\* the list shorter than min(5, number of bins above 100 Hz).
C29_TopFiveAbove100 ==
    Listed =>
        /\ Len(output) = Min(5, Cardinality(HighBins))
        /\ \A j \in 1..Len(output) : output[j] \in HighBins
        /\ \A j \in 1..(Len(output) - 1) : input[output[j]] > input[output[j + 1]]
        /\ \A b \in HighBins :
            (\A j \in 1..Len(output) : output[j] # b) =>
                \A j \in 1..Len(output) : input[b] < input[output[j]]

====
